---- MODULE Spec2Model ----
(***************************************************************************)
(* Bundle-Compile-Cache provider (src/BCC.ts) and its oak middleware       *)
(* (src/BCC_Middleware.ts).                                                *)
(*                                                                         *)
(* Text is modelled as a sequence of one-token strings, so that suffix     *)
(* stripping, concatenation and substring replacement are computed and not *)
(* assumed.  A file path is the sequence of its segments, <<folder, name>> *)
(* or <<folder, handle, digest>>; the leading "./" of the template strings *)
(* names the same file and is dropped.                                     *)
(***************************************************************************)
EXTENDS Integers, Sequences, FiniteSets, TLC

VARIABLES
  cfg,        \* BCC_Settings as stored by the BCC constructor
  cacheMap,   \* BCC.cacheMap: insertion-ordered sequence of <<handle, source>>
  fs,         \* the cache files: path -> text
  src,        \* the source tree under tsSource: name -> source version or "absent"
  req,        \* the in-flight cached requests, one record per slot
  clearing,   \* fs.emptyDir calls made and not yet run: <<operation, folder>>
  last,       \* the cached request that ended most recently
  calls,      \* number of cached requests started so far
  mw,         \* BCC_Middleware's three patterns after its constructor
  rw          \* input and output of the last direct mapExternalSources evaluation

vars == <<cfg, cacheMap, fs, src, req, clearing, last, calls, mw, rw>>

----------------------------------------------------------------------------
(* Bounds *)

\* cached requests started in one behaviour
MaxCalls == 3
\* request slots: requests that may be in flight together
MaxInflight == 2
\* longest code text given to mapExternalSources directly
MaxCodeLen == 3
\* longest base URL registered when mapExternalSources is studied on its own
MaxUrlLen == 2

----------------------------------------------------------------------------
(* Text *)

Absent == "<undefined>"

\* JavaScript truthiness of an optional string setting
Truthy(x) == x # Absent /\ x # ""

DotJs == <<".", "j", "s">>

\* a text that is the JavaScript value undefined
UndefinedValue == <<"<undefined value>">>

\* `${x}` for an optional text: an undefined value prints as "undefined"
Tmpl(x) == IF x = UndefinedValue THEN <<"undefined">> ELSE x

\* script.replace(/.js$/, ""): "." is the regular expression wildcard, so any
\* one character followed by "js" at the end of the text is removed
StripJs(script) ==
  LET n == Len(script) IN
  IF n >= 3 /\ script[n-1] = "j" /\ script[n] = "s"
  THEN SubSeq(script, 1, n-3)
  ELSE script

\* t occurs in s at position i
OccursAt(s, t, i) ==
  /\ i >= 1
  /\ i + Len(t) - 1 <= Len(s)
  /\ \A j \in 1..Len(t) : s[i+j-1] = t[j]

Contains(s, t) == \E i \in 1..(Len(s)+1) : OccursAt(s, t, i)

\* String.prototype.replaceAll(pat, rep) for a text pattern: matches are found
\* left to right and do not overlap; the empty pattern matches before every
\* character and at the end
RECURSIVE ReplaceFrom(_, _, _, _)
ReplaceFrom(s, pat, rep, i) ==
  IF Len(pat) = 0
  THEN IF i > Len(s) THEN rep
       ELSE rep \o <<s[i]>> \o ReplaceFrom(s, pat, rep, i+1)
  ELSE IF i > Len(s) THEN <<>>
       ELSE IF OccursAt(s, pat, i)
            THEN rep \o ReplaceFrom(s, pat, rep, i + Len(pat))
            ELSE <<s[i]>> \o ReplaceFrom(s, pat, rep, i+1)

\* variant: String.prototype.replace with a text pattern, first match only
ReplaceAll_FirstOnly(s, pat, rep) ==
  IF \E i \in 1..(Len(s)+1) : OccursAt(s, pat, i)
  THEN LET i == CHOOSE i \in 1..(Len(s)+1) :
                  /\ OccursAt(s, pat, i)
                  /\ \A j \in 1..(i-1) : ~OccursAt(s, pat, j)
       IN SubSeq(s, 1, i-1) \o rep \o SubSeq(s, i + Len(pat), Len(s))
  ELSE s

ReplaceAll(s, pat, rep) == ReplaceFrom(s, pat, rep, 1)

\* createHash("md5").update(script).toString(): a digest of the script text,
\* taken to be injective
Md5(script) == <<"md5:">> \o script

----------------------------------------------------------------------------
(* Small input domains *)

\* script names asked for: with and without the ".js" extension
Scripts == { <<"a">>, <<"a", ".", "j", "s">> }

\* remote source handles and base URLs
Handles == { <<"h">> }
Sources == { <<"u">> }

\* versions of a source file: two that compile, one with diagnostics
SrcVersions == { "v1", "v2", "bad" }
SrcNames == { StripJs(s) : s \in Scripts }

\* bodies a remote server may answer with
Bodies == { <<"u", "k">>, <<"k">> }

ArtifactOps == { "cachedBundle", "cachedCompile", "cachedTranspile" }
Ops == ArtifactOps \cup { "scriptCache" }

----------------------------------------------------------------------------
(* BCC: settings, registry, rewriting, paths *)

\* BCC_Settings after the constructor: mapSources defaults to false
BCC_Settings(b, c, t, e, root, m) ==
  [ tsSource |-> "src", bundleFolder |-> b, compiledFolder |-> c,
    transpileFolder |-> t, cacheFolder |-> e, cacheRoot |-> root,
    mapSources |-> m ]

\* cacheMap.has(handle)
validSource(handle) == \E i \in 1..Len(cacheMap) : cacheMap[i][1] = handle

\* cacheMap.get(handle)
MapGet(handle) ==
  IF validSource(handle)
  THEN cacheMap[CHOOSE i \in 1..Len(cacheMap) : cacheMap[i][1] = handle][2]
  ELSE UndefinedValue

\* cacheMap.set(handle, source): a known handle keeps its place in the order
MapSet(m, handle, source) ==
  IF \E i \in 1..Len(m) : m[i][1] = handle
  THEN [ i \in 1..Len(m) |-> IF m[i][1] = handle THEN <<handle, source>> ELSE m[i] ]
  ELSE Append(m, <<handle, source>>)

\* the text `${this.cacheRoot}/${handle}/`
LocalRef(root, handle) == Tmpl(root) \o <<"/">> \o handle \o <<"/">>

\* the loop of mapExternalSources over the first n registry entries
RECURSIVE MapEntries(_, _, _, _)
MapEntries(code, m, root, n) ==
  IF n = 0 THEN code
  ELSE ReplaceAll(MapEntries(code, m, root, n-1), m[n][2], LocalRef(root, m[n][1]))

mapExternalSources(code) ==
  IF cfg.mapSources = TRUE
  THEN MapEntries(code, cacheMap, cfg.cacheRoot, Len(cacheMap))
  ELSE code

\* mapExternalSources(undefined): the loop body calls replaceAll on undefined
MapThrows(code) ==
  code = UndefinedValue /\ cfg.mapSources = TRUE /\ Len(cacheMap) > 0

\* a disabled path (false)
NoPath == <<>>

generatedPaths(script) ==
  [ source    |-> <<cfg.tsSource, script>>,
    bundle    |-> IF Truthy(cfg.bundleFolder)
                  THEN <<cfg.bundleFolder, script>> ELSE NoPath,
    transpile |-> IF Truthy(cfg.transpileFolder)
                  THEN <<cfg.transpileFolder, script>> ELSE NoPath,
    compiled  |-> IF Truthy(cfg.compiledFolder)
                  THEN <<cfg.compiledFolder, script>> ELSE NoPath ]

\* `${dir}.js`
WithJs(path) == [ path EXCEPT ![Len(path)] = @ \o DotJs ]

\* the path scriptCache reads: `./${cacheFolder}/${handle}/${hash}`
ExternalUri(script, handle) ==
  IF Truthy(cfg.cacheFolder)
  THEN <<cfg.cacheFolder, handle, Md5(script)>> ELSE NoPath

\* variant: the path is built whether or not the folder is configured
CachePath_NoToggle(op, script, handle) ==
  CASE op = "cachedBundle"    -> <<cfg.bundleFolder, script>>
    [] op = "cachedCompile"   -> <<cfg.compiledFolder, script>>
    [] op = "cachedTranspile" -> <<cfg.transpileFolder, script>>
    [] op = "scriptCache"     -> <<cfg.cacheFolder, handle, Md5(script)>>

\* the cachePath each cached operation hands to its read
CachePath(op, script, handle) ==
  CASE op = "cachedBundle"    -> generatedPaths(script).bundle
    [] op = "cachedCompile"   -> generatedPaths(script).compiled
    [] op = "cachedTranspile" -> generatedPaths(script).transpile
    [] op = "scriptCache"     -> ExternalUri(script, handle)

\* the path each generator writes, given the identifier it was called with
bundle(script)    == WithJs(generatedPaths(script).bundle)
compile(script)   == generatedPaths(script).compiled
transpile(script) == generatedPaths(script).transpile

\* variant: the entry is written under a fixed folder name
updateCache_FixedFolder(script, handle) == <<"cache", handle, Md5(script)>>

updateCache(script, handle) == <<cfg.cacheFolder, handle, Md5(script)>>

WritePath(op, arg, handle) ==
  CASE op = "cachedBundle"    -> bundle(arg)
    [] op = "cachedCompile"   -> compile(arg)
    [] op = "cachedTranspile" -> transpile(arg)
    [] op = "scriptCache"     -> updateCache(arg, handle)

\* the url updateCache fetches: `${this.cacheMap.get(src)}${script}`
FetchUrl(script, handle) == Tmpl(MapGet(handle)) \o script

\* "undefined<script>" is no absolute URL: fetch rejects it
ValidUrl(url) == Len(url) > 0 /\ url[1] # "undefined"

----------------------------------------------------------------------------
(* The external collaborators *)

\* the variant of BCC without feature toggles: every folder is taken as set, and
\* its compile, like its bundle, writes `${dir}.js`; its updateCache writes under
\* "./cache" whatever cacheFolder is, while its scriptCache reads under cacheFolder
Simple_generatedPaths(script) ==
  [ source   |-> <<cfg.tsSource, script>>,
    bundle   |-> <<cfg.bundleFolder, script>>,
    compiled |-> <<cfg.compiledFolder, script>> ]

Simple_CachePath(op, script, handle) ==
  CASE op = "cachedBundle"  -> Simple_generatedPaths(script).bundle
    [] op = "cachedCompile" -> Simple_generatedPaths(script).compiled
    [] op = "scriptCache"   -> <<cfg.cacheFolder, handle, Md5(script)>>

Simple_WritePath(op, arg, handle) ==
  CASE op = "cachedBundle"  -> WithJs(Simple_generatedPaths(arg).bundle)
    [] op = "cachedCompile" -> WithJs(Simple_generatedPaths(arg).compiled)
    [] op = "scriptCache"   -> <<"cache", handle, Md5(arg)>>

SrcAt(name) == IF name \in DOMAIN src THEN src[name] ELSE "absent"

\* Deno.bundle(paths.source): [diagnostics, emit]
DenoBundle(v) ==
  CASE v = "v1"  -> [ diagnostics |-> "null", emit |-> << <<"u", "k">> >> ]
    [] v = "v2"  -> [ diagnostics |-> "null", emit |-> << <<"k">> >> ]
    [] v = "bad" -> [ diagnostics |-> "errors", emit |-> << <<>> >> ]

\* Deno.compile(paths.source): [diagnostics, emitMap]; a module with an import
\* emits one resource per module
DenoCompile(v) ==
  CASE v = "v1"  -> [ diagnostics |-> "null", emit |-> << <<"u", "k">> >> ]
    [] v = "v2"  -> [ diagnostics |-> "null", emit |-> << <<"k">>, <<"u">> >> ]
    [] v = "bad" -> [ diagnostics |-> "errors", emit |-> <<>> ]

\* Deno.transpileOnly({"main.ts": paths.source}) resolves to a record keyed by
\* "main.ts"; its property `source` is not set
DenoTranspileOnly == [ diagnostics |-> "null", emit |-> << UndefinedValue >> ]

\* new TextEncoder().encode(undefined) is the empty text
Written(code) == IF code = UndefinedValue THEN <<>> ELSE code

----------------------------------------------------------------------------
(* Payloads *)

Payload(t, fn, script, handle, text) ==
  [ t |-> t, fn |-> fn, script |-> script, handle |-> handle, text |-> text ]

\* the content of a file, returned verbatim
Text(c) == Payload("text", "", <<>>, <<>>, c)

\* throw new Error("<fn> somehow failed.") / "external cache somehow failed."
SomehowFailed(op) ==
  Payload("somehow failed", IF op = "scriptCache" THEN "external cache" ELSE op,
          <<>>, <<>>, <<>>)

\* throw new Error("<fn> is disabled in the BCC configuration.") /
\* throw new Error("External cache disabled.")
Disabled(op) ==
  Payload("disabled", IF op = "scriptCache" THEN "External cache" ELSE op,
          <<>>, <<>>, <<>>)

\* throw new Error("<fn> failed to find file '<script>'.") /
\* "external cache missing file '<script>' for source '<handle>'."
NotFound(op, script, handle) ==
  IF op = "scriptCache"
  THEN Payload("missing file", "external cache", script, handle, <<>>)
  ELSE Payload("failed to find file", op, script, <<>>, <<>>)

\* no payload: the request ended with an exception
Fault(what) == Payload("fault", what, <<>>, <<>>, <<>>)

\* a response body that was not set
NoBody == Payload("unset", "", <<>>, <<>>, <<>>)

----------------------------------------------------------------------------
(* Cached requests *)

Slots == 1..MaxInflight

IdleReq ==
  [ pc |-> "idle", op |-> "", script |-> <<>>, handle |-> <<>>, path |-> <<>>,
    arg |-> <<>>, url |-> <<>>, out |-> [ diagnostics |-> "null", emit |-> <<>> ],
    k |-> 0, code |-> <<>>, reads |-> 0, writes |-> 0, gens |-> 0, fetches |-> 0,
    emptyAtCall |-> FALSE, registered |-> FALSE, pathname |-> <<>> ]

\* what is kept of a request that ended, and how it relates to the request that
\* ended before it
NoRequest ==
  [ op |-> "", script |-> <<>>, handle |-> <<>>, res |-> Fault("none"),
    reads |-> 0, writes |-> 0, gens |-> 0, fetches |-> 0,
    emptyAtCall |-> FALSE, registered |-> FALSE, cleared |-> FALSE,
    again |-> FALSE, afterClear |-> FALSE, sameRes |-> FALSE,
    prevOk |-> FALSE, prevRegistered |-> FALSE,
    prevGens |-> 0, prevEmptyAtCall |-> FALSE, prevAfterClear |-> FALSE,
    pathname |-> <<>>, body |-> NoBody, type |-> Absent, next |-> 0 ]

\* r asks for what the request that ended last asked for
SameAsLast(r) ==
  last.op = r.op /\ last.script = r.script /\ last.handle = r.handle

Ended(r, res) ==
  [ op |-> r.op, script |-> r.script, handle |-> r.handle, res |-> res,
    reads |-> r.reads, writes |-> r.writes, gens |-> r.gens, fetches |-> r.fetches,
    emptyAtCall |-> r.emptyAtCall,
    registered |-> r.registered,
    \* the request's folder was emptied after it ended
    cleared |-> FALSE,
    \* the request before asked for the same and no clear ran in between
    again |-> SameAsLast(r) /\ ~last.cleared,
    \* the request before asked for the same, returned and left an artifact (it
    \* wrote one or read one), and its folder was emptied since
    afterClear |-> /\ SameAsLast(r) /\ last.cleared
                   /\ (last.writes > 0 \/ last.res.t = "text"),
    sameRes |-> SameAsLast(r) /\ res = last.res,
    \* the request before returned a payload; its handle was registered
    prevOk |-> SameAsLast(r) /\ last.res.t # "fault",
    prevRegistered |-> SameAsLast(r) /\ last.registered,
    prevGens |-> IF SameAsLast(r) THEN last.gens + last.fetches ELSE 0,
    prevEmptyAtCall |-> SameAsLast(r) /\ last.emptyAtCall,
    prevAfterClear |-> SameAsLast(r) /\ last.afterClear,
    pathname |-> r.pathname,
    \* the middleware sets the response only when the operation returned
    body |-> IF r.pathname # <<>> /\ res.t # "fault" THEN res ELSE NoBody,
    type |-> IF r.pathname # <<>> /\ res.t # "fault" THEN "text/javascript" ELSE Absent,
    next |-> 0 ]

\* the request in slot i ends with payload (or fault) res
Return(i, r, res) ==
  /\ req' = [ req EXCEPT ![i] = IdleReq ]
  /\ last' = Ended(r, res)

FreeSlot == CHOOSE i \in Slots : req[i].pc = "idle" /\ \A j \in Slots : j < i => req[j].pc # "idle"

\* no file lies under folder d
EmptyFolder(d) == \A p \in DOMAIN fs : p[1] # d

\* Deno.readTextFile(path): the text, or NotFound
Exists(path) == path \in DOMAIN fs

\* variant: the text read is rewritten against the registry of the moment
readTextFile_Remapped(path) == mapExternalSources(fs[path])

readTextFile(path) == fs[path]

\* cachedBundle / cachedCompile / cachedTranspile / scriptCache up to the first
\* await: a disabled operation returns its payload at once, otherwise
\* Deno.readTextFile(cachePath) is called
CachedCall(op, script, handle, pathname) ==
  /\ calls < MaxCalls
  /\ \E i \in Slots : req[i].pc = "idle"
  /\ calls' = calls + 1
  /\ LET i == FreeSlot
         path == CachePath(op, script, handle)
         r == [ IdleReq EXCEPT !.op = op, !.script = script, !.handle = handle,
                               !.path = path, !.pathname = pathname,
                               !.registered = validSource(handle),
                               !.emptyAtCall = (path # NoPath /\ EmptyFolder(path[1])) ]
     IN IF path = NoPath
        THEN Return(i, r, Disabled(op))
        ELSE /\ req' = [ req EXCEPT ![i] = [ r EXCEPT !.pc = "read1" ] ]
             /\ UNCHANGED last
  /\ UNCHANGED <<cfg, cacheMap, fs, src, clearing, mw, rw>>

\* the first Deno.readTextFile settles: a hit returns the text; a miss enters the
\* catch block, which calls generator(script.replace(/.js$/, "")) or
\* updateCache(script, handle, uri), up to their first await
CacheOrGenRead(i) ==
  /\ req[i].pc = "read1"
  /\ LET r == [ req[i] EXCEPT !.reads = @ + 1 ] IN
     IF Exists(r.path)
     THEN Return(i, r, Text(readTextFile(r.path)))
     ELSE /\ IF r.op = "scriptCache"
             THEN req' = [ req EXCEPT ![i] =
                      [ r EXCEPT !.pc = "fetch", !.arg = r.script, !.fetches = @ + 1,
                                 !.url = FetchUrl(r.script, r.handle) ] ]
             ELSE req' = [ req EXCEPT ![i] =
                      [ r EXCEPT !.pc = "gen", !.arg = StripJs(r.script),
                                 !.gens = @ + 1 ] ]
          /\ UNCHANGED last
  /\ UNCHANGED <<cfg, cacheMap, fs, src, clearing, calls, mw, rw>>

\* Deno.bundle / Deno.compile / Deno.transpileOnly runs on paths.source; a source
\* that does not exist makes bundle and compile reject
GeneratorRun(i) ==
  /\ req[i].pc = "gen"
  /\ LET r == req[i]
         v == SrcAt(r.arg) IN
     IF r.op = "cachedTranspile"
     THEN /\ req' = [ req EXCEPT ![i] = [ r EXCEPT !.pc = "resume", !.out = DenoTranspileOnly ] ]
          /\ UNCHANGED last
     ELSE IF v = "absent"
     THEN Return(i, r, Fault("NotFound"))
     ELSE /\ req' = [ req EXCEPT ![i] = [ r EXCEPT !.pc = "resume",
                        !.out = IF r.op = "cachedBundle" THEN DenoBundle(v)
                                                         ELSE DenoCompile(v) ] ]
          /\ UNCHANGED last
  /\ UNCHANGED <<cfg, cacheMap, fs, src, clearing, calls, mw, rw>>

\* the next resource of the emit is rewritten and fs.ensureDir is called; with no
\* resource left the generator returns and the second read is called
NextResource(r, k) ==
  IF k > Len(r.out.emit)
  THEN [ r EXCEPT !.pc = "read2", !.k = 0 ]
  ELSE [ r EXCEPT !.pc = "write", !.k = k, !.code = mapExternalSources(r.out.emit[k]) ]

\* variant: the emit is written before the diagnostics are asserted
GeneratorResume_WriteFirst(i) ==
  /\ req[i].pc = "resume"
  /\ LET r == req[i]
         path == WritePath(r.op, r.arg, r.handle) IN
     IF r.out.diagnostics # "null"
     THEN /\ fs' = [ p \in DOMAIN fs \cup {path} |-> IF p = path THEN <<>> ELSE fs[p] ]
          /\ Return(i, [ r EXCEPT !.writes = @ + 1 ], Fault("AssertionError"))
     ELSE IF MapThrows(r.out.emit[1])
     THEN Return(i, r, Fault("TypeError")) /\ UNCHANGED fs
     ELSE /\ req' = [ req EXCEPT ![i] = NextResource(r, 1) ]
          /\ UNCHANGED <<last, fs>>
  /\ UNCHANGED <<cfg, cacheMap, src, clearing, calls, mw, rw>>

\* variant: the failed assertion is caught and the request returns the not-found
\* payload
GeneratorResume_Caught(i) ==
  /\ req[i].pc = "resume"
  /\ LET r == req[i] IN
     IF r.out.diagnostics # "null"
     THEN Return(i, r, NotFound(r.op, r.script, r.handle))
     ELSE IF MapThrows(r.out.emit[1])
     THEN Return(i, r, Fault("TypeError"))
     ELSE /\ req' = [ req EXCEPT ![i] = NextResource(r, 1) ]
          /\ UNCHANGED last
  /\ UNCHANGED <<cfg, cacheMap, fs, src, clearing, calls, mw, rw>>

\* the generator resumes after the Deno call: assert(diagnostics == null), then
\* mapExternalSources
GeneratorResume(i) ==
  /\ req[i].pc = "resume"
  /\ LET r == req[i] IN
     IF r.out.diagnostics # "null"
     THEN Return(i, r, Fault("AssertionError"))
     ELSE IF MapThrows(r.out.emit[1])
     THEN Return(i, r, Fault("TypeError"))
     ELSE /\ req' = [ req EXCEPT ![i] = NextResource(r, 1) ]
          /\ UNCHANGED last
  /\ UNCHANGED <<cfg, cacheMap, fs, src, clearing, calls, mw, rw>>

\* the network answers updateCache's fetch: a url that is no URL and a network
\* failure reject; otherwise the body is rewritten and fs.ensureDir is called
UpdateCacheFetch(i) ==
  /\ req[i].pc = "fetch"
  /\ LET r == req[i] IN
     \/ /\ ValidUrl(r.url)
        /\ \E b \in Bodies :
             req' = [ req EXCEPT ![i] =
                      [ r EXCEPT !.pc = "write", !.k = 1, !.code = mapExternalSources(b),
                                 !.out = [ diagnostics |-> "null", emit |-> <<b>> ] ] ]
        /\ UNCHANGED last
     \/ Return(i, r, Fault("fetch"))
  /\ UNCHANGED <<cfg, cacheMap, fs, src, clearing, calls, mw, rw>>

\* fs.ensureDir and Deno.writeTextFile run; a write that fails rejects, and a
\* write to a path with no file name (a folder) always does
WriteTextFile(i) ==
  /\ req[i].pc = "write"
  /\ LET r == req[i]
         path == WritePath(r.op, r.arg, r.handle) IN
     \/ /\ path[Len(path)] # <<>>
        /\ fs' = [ p \in DOMAIN fs \cup {path} |->
                     IF p = path THEN Written(r.code) ELSE fs[p] ]
        /\ req' = [ req EXCEPT ![i] = NextResource([ r EXCEPT !.writes = @ + 1 ], r.k + 1) ]
        /\ UNCHANGED last
     \/ /\ Return(i, r, Fault("write"))
        /\ UNCHANGED fs
  /\ UNCHANGED <<cfg, cacheMap, src, clearing, calls, mw, rw>>

\* variant: a second read that fails leaves the placeholder in place
CacheOrGenReRead_Placeholder(i) ==
  /\ req[i].pc = "read2"
  /\ LET r == [ req[i] EXCEPT !.reads = @ + 1 ] IN
     IF Exists(r.path)
     THEN Return(i, r, Text(readTextFile(r.path)))
     ELSE Return(i, r, SomehowFailed(r.op))
  /\ UNCHANGED <<cfg, cacheMap, fs, src, clearing, calls, mw, rw>>

\* variant: a second read that fails runs the Generator or the fetch once more
CacheOrGenReRead_Retry(i) ==
  /\ req[i].pc = "read2"
  /\ LET r == [ req[i] EXCEPT !.reads = @ + 1 ] IN
     IF Exists(r.path)
     THEN Return(i, r, Text(readTextFile(r.path)))
     ELSE /\ IF r.op = "scriptCache"
             THEN req' = [ req EXCEPT ![i] = [ r EXCEPT !.pc = "fetch", !.fetches = @ + 1 ] ]
             ELSE req' = [ req EXCEPT ![i] = [ r EXCEPT !.pc = "gen", !.gens = @ + 1 ] ]
          /\ UNCHANGED last
  /\ UNCHANGED <<cfg, cacheMap, fs, src, clearing, calls, mw, rw>>

\* the second Deno.readTextFile settles: the text, or the not-found payload
CacheOrGenReRead(i) ==
  /\ req[i].pc = "read2"
  /\ LET r == [ req[i] EXCEPT !.reads = @ + 1 ] IN
     IF Exists(r.path)
     THEN Return(i, r, Text(readTextFile(r.path)))
     ELSE Return(i, r, NotFound(r.op, r.script, r.handle))
  /\ UNCHANGED <<cfg, cacheMap, fs, src, clearing, calls, mw, rw>>

----------------------------------------------------------------------------
(* Clearing, registration, the environment *)

\* the folder a cached operation keeps its files in
FolderOf(op) ==
  CASE op = "cachedBundle"    -> cfg.bundleFolder
    [] op = "cachedCompile"   -> cfg.compiledFolder
    [] op = "cachedTranspile" -> cfg.transpileFolder
    [] op = "scriptCache"     -> cfg.cacheFolder
    [] OTHER                  -> Absent

\* variant: clearBundleCache empties the folder of the compiled code
clearBundleCache_OtherFolder ==
  IF Truthy(cfg.bundleFolder) THEN { <<"clearBundleCache", cfg.compiledFolder>> } ELSE {}

\* the fs.emptyDir calls each clear operation makes, each named by the operation
\* that makes it and the folder it empties: a folder that is not configured makes
\* the operation return at once
clearBundleCache ==
  IF Truthy(cfg.bundleFolder) THEN { <<"clearBundleCache", cfg.bundleFolder>> } ELSE {}
clearCompileCache ==
  IF Truthy(cfg.compiledFolder) THEN { <<"clearCompileCache", cfg.compiledFolder>> } ELSE {}
clearTranspileCache ==
  IF Truthy(cfg.transpileFolder) THEN { <<"clearTranspileCache", cfg.transpileFolder>> } ELSE {}
clearExternalCache ==
  IF Truthy(cfg.cacheFolder) THEN { <<"clearExternalCache", cfg.cacheFolder>> } ELSE {}
\* clearAllCache calls the four and awaits them together
clearAllCache ==
  clearBundleCache \cup clearCompileCache \cup clearTranspileCache \cup clearExternalCache

ClearOps ==
  { clearBundleCache, clearCompileCache, clearTranspileCache, clearExternalCache,
    clearAllCache }

\* a clear operation is called: its fs.emptyDir calls are pending
ClearCall(emptyings) ==
  /\ clearing' = clearing \cup emptyings
  /\ UNCHANGED <<cfg, cacheMap, fs, src, req, last, calls, mw, rw>>

\* fs.emptyDir(`./${folder}/`) runs: every file under the folder is removed
EmptyDir(e) ==
  /\ e \in clearing
  /\ clearing' = clearing \ {e}
  /\ fs' = [ p \in { q \in DOMAIN fs : q[1] # e[2] } |-> fs[p] ]
  /\ last' = IF FolderOf(last.op) = e[2] THEN [ last EXCEPT !.cleared = TRUE ] ELSE last
  /\ UNCHANGED <<cfg, cacheMap, src, req, calls, mw, rw>>

\* valid(script): an empty or undefined script is refused; otherwise fs.exists
\* looks for the source file
valid(script) ==
  /\ calls < MaxCalls
  /\ calls' = calls + 1
  /\ LET refused == script \in { <<>>, UndefinedValue } IN
     last' = [ NoRequest EXCEPT
                 !.op = "valid", !.script = script,
                 !.reads = IF refused THEN 0 ELSE 1,
                 !.res = Payload("boolean",
                                 IF ~refused /\ SrcAt(script) # "absent"
                                 THEN "true" ELSE "false",
                                 <<>>, <<>>, <<>>) ]
  /\ UNCHANGED <<cfg, cacheMap, fs, src, req, clearing, mw, rw>>

addCacheSource(handle, source) ==
  /\ cacheMap' = MapSet(cacheMap, handle, source)
  /\ UNCHANGED <<cfg, fs, src, req, clearing, last, calls, mw, rw>>

\* the source tree is edited from outside
EditSource(name, v) ==
  /\ src[name] # v
  /\ src' = [ src EXCEPT ![name] = v ]
  /\ UNCHANGED <<cfg, cacheMap, fs, req, clearing, last, calls, mw, rw>>

----------------------------------------------------------------------------
(* BCC_Middleware: patterns, constructor, request handler *)

\* values of an optional pattern setting that are no regular expression
Undefined == <<"undefined">>
Null      == <<"null">>

\* a regular expression is written as its parts: /\/word\/(.+)/ has one capture,
\* /\/word\/(.+?)\/(.+)/ has two; none of them is anchored or carries a flag
DefaultBundleRegEx  == <<"/", "bundled", "/", "(.+)">>
DefaultCompileRegEx == <<"/", "compiled", "/", "(.+)">>
DefaultCacheRegEx   == <<"/", "cache", "/", "(.+?)", "/", "(.+)">>

BCC_Middleware_Settings(b, c, e) ==
  [ BundleRegEx |-> b, CompileRegEx |-> c, CacheRegEx |-> e ]

\* settings.X != undefined: the loose comparison is false for null as well
Given(re) == re # Undefined /\ re # Null

\* variant: a pattern is kept whether or not its folder is configured
BCC_Middleware_KeepsPattern(settings) ==
  [ settings     |-> settings,
    BundleRegEx  |-> IF Given(settings.BundleRegEx)
                     THEN settings.BundleRegEx ELSE DefaultBundleRegEx,
    CompileRegEx |-> IF Given(settings.CompileRegEx)
                     THEN settings.CompileRegEx ELSE DefaultCompileRegEx,
    CacheRegEx   |-> IF Given(settings.CacheRegEx)
                     THEN settings.CacheRegEx ELSE DefaultCacheRegEx ]

\* the constructor: each pattern is the caller's if one is given, else the
\* default, and is then set to null if the folder of its route is not configured
BCC_Middleware(settings) ==
  [ settings     |-> settings,
    BundleRegEx  |-> IF ~Truthy(cfg.bundleFolder) THEN Null
                     ELSE IF Given(settings.BundleRegEx)
                     THEN settings.BundleRegEx ELSE DefaultBundleRegEx,
    CompileRegEx |-> IF ~Truthy(cfg.compiledFolder) THEN Null
                     ELSE IF Given(settings.CompileRegEx)
                     THEN settings.CompileRegEx ELSE DefaultCompileRegEx,
    CacheRegEx   |-> IF ~Truthy(cfg.cacheFolder) THEN Null
                     ELSE IF Given(settings.CacheRegEx)
                     THEN settings.CacheRegEx ELSE DefaultCacheRegEx ]

\* no middleware was constructed
NoPatterns ==
  [ settings     |-> BCC_Middleware_Settings(Undefined, Undefined, Undefined),
    BundleRegEx  |-> Null, CompileRegEx |-> Null, CacheRegEx |-> Null ]

\* the pattern can match with "/word/" beginning at position i of the pathname:
\* (.+) needs one character at least; (.+?)\/(.+) needs one character, a later
\* "/" and one character after it
MatchAt(re, pathname, i) ==
  /\ i + 3 <= Len(pathname)
  /\ pathname[i] = "/" /\ pathname[i+1] = re[2] /\ pathname[i+2] = "/"
  /\ Len(re) = 6 => \E j \in (i+4)..(Len(pathname)-1) : pathname[j] = "/"

\* re.exec(pathname): the captures of the leftmost match, or none. (.+) takes the
\* rest of the pathname; (.+?) takes as little as lets the rest match
NoMatch == <<>>

exec(re, pathname) ==
  LET starts == { i \in 1..Len(pathname) : MatchAt(re, pathname, i) } IN
  IF re = Null \/ starts = {} THEN NoMatch
  ELSE LET i == CHOOSE i \in starts : \A k \in starts : i <= k IN
       IF Len(re) = 4
       THEN << SubSeq(pathname, i + 3, Len(pathname)) >>
       ELSE LET js == { j \in (i+4)..(Len(pathname)-1) : pathname[j] = "/" }
                j == CHOOSE j \in js : \A k \in js : j <= k
            IN << SubSeq(pathname, i + 3, j - 1),
                  SubSeq(pathname, j + 1, Len(pathname)) >>

\* re?.test(pathname)
test(re, pathname) == exec(re, pathname) # NoMatch

\* variant: the compile pattern is tried before the bundle pattern
Route_CompileFirst(pathname) ==
  IF test(mw.CompileRegEx, pathname) THEN "cachedCompile"
  ELSE IF test(mw.BundleRegEx, pathname) THEN "cachedBundle"
  ELSE IF test(mw.CacheRegEx, pathname) THEN "scriptCache"
  ELSE "next"

\* the branch of the handler's if / else if chain a pathname takes
Route(pathname) ==
  IF test(mw.BundleRegEx, pathname) THEN "cachedBundle"
  ELSE IF test(mw.CompileRegEx, pathname) THEN "cachedCompile"
  ELSE IF test(mw.CacheRegEx, pathname) THEN "scriptCache"
  ELSE "next"

\* await next(): the request is left to the rest of the pipeline
PassThrough(pathname) ==
  /\ calls < MaxCalls
  /\ calls' = calls + 1
  /\ last' = [ NoRequest EXCEPT !.pathname = pathname, !.next = 1 ]
  /\ UNCHANGED <<cfg, cacheMap, fs, src, req, clearing, mw, rw>>

\* the handler middleware() returns, called with a request for pathname: the
\* operation of the first pattern that matches is called with the captures (the
\* response is set when it returns), or next is
Middleware(pathname) ==
  LET route == Route(pathname) IN
  \/ /\ route = "cachedBundle"
     /\ CachedCall("cachedBundle", exec(mw.BundleRegEx, pathname)[1], <<>>, pathname)
  \/ /\ route = "cachedCompile"
     /\ CachedCall("cachedCompile", exec(mw.CompileRegEx, pathname)[1], <<>>, pathname)
  \/ /\ route = "scriptCache"
     /\ LET m == exec(mw.CacheRegEx, pathname)
        IN CachedCall("scriptCache", m[2], m[1], pathname)
  \/ /\ route = "next"
     /\ PassThrough(pathname)

----------------------------------------------------------------------------
(* The engine on its own *)

\* every folder configured, with and without rewriting; no folder configured;
\* only compiledFolder; bundleFolder and cacheFolder
Configs ==
  { BCC_Settings("b", "c", "t", "e", <<"r">>, TRUE),
    BCC_Settings("b", "c", "t", "e", <<"r">>, FALSE),
    BCC_Settings(Absent, Absent, Absent, Absent, UndefinedValue, FALSE),
    BCC_Settings(Absent, "c", Absent, Absent, UndefinedValue, FALSE),
    BCC_Settings("b", "", Absent, "e", <<"r">>, TRUE) }

NoRewrite == [ code |-> <<>>, out |-> <<>>, map |-> <<>>, done |-> FALSE ]

Init ==
  /\ cfg \in Configs
  /\ cacheMap = <<>>
  /\ fs = <<>>
  /\ src \in [ SrcNames -> SrcVersions \cup {"absent"} ]
  /\ req = [ i \in Slots |-> IdleReq ]
  /\ clearing = {}
  /\ last = NoRequest
  /\ calls = 0
  /\ mw = NoPatterns
  /\ rw = NoRewrite

\* nothing is in flight
Quiet == clearing = {} /\ \A i \in Slots : req[i].pc = "idle"

Step(i) ==
  \/ CacheOrGenRead(i)
  \/ GeneratorRun(i)
  \/ GeneratorResume(i)
  \/ UpdateCacheFetch(i)
  \/ WriteTextFile(i)
  \/ CacheOrGenReRead(i)

Next ==
  \/ \E op \in ArtifactOps, s \in Scripts : CachedCall(op, s, <<>>, <<>>)
  \/ \E s \in Scripts, h \in Handles : CachedCall("scriptCache", s, h, <<>>)
  \/ \E i \in Slots : Step(i)
  \/ \E f \in ClearOps : ClearCall(f)
  \/ \E e \in clearing : EmptyDir(e)
  \/ \E h \in Handles, u \in Sources : addCacheSource(h, u)
  \/ \E n \in SrcNames, v \in SrcVersions \cup {"absent"} : EditSource(n, v)

Spec == Init /\ [][Next]_vars

\* a sequential run: one call at a time, each awaited before the next; the source
\* tree is read once per request, so an edit during a request is an edit after it
NextSeq ==
  \/ Quiet /\ \E op \in ArtifactOps, s \in Scripts : CachedCall(op, s, <<>>, <<>>)
  \/ Quiet /\ \E s \in Scripts, h \in Handles : CachedCall("scriptCache", s, h, <<>>)
  \/ \E i \in Slots : Step(i)
  \/ Quiet /\ \E f \in ClearOps : ClearCall(f)
  \/ \E e \in clearing : EmptyDir(e)
  \/ Quiet /\ \E h \in Handles, u \in Sources : addCacheSource(h, u)
  \/ Quiet /\ \E n \in SrcNames, v \in SrcVersions \cup {"absent"} : EditSource(n, v)

SpecSeq == Init /\ [][NextSeq]_vars

----------------------------------------------------------------------------
(* mapExternalSources on its own *)

\* all texts over alphabet A of length at most n
Texts(A, n) == UNION { [ 1..k -> A ] : k \in 0..n }

RwAlphabet == { "u", "v" }
RwCodes    == Texts(RwAlphabet, MaxCodeLen)
RwSources  == Texts(RwAlphabet, MaxUrlLen)
RwHandles  == { <<"h">>, <<"g">> }
\* cacheRoot: a root foreign to the base URLs, one that is itself a base URL,
\* and none
RwRoots    == { <<"r">>, <<"u">>, UndefinedValue }

InitRewrite ==
  /\ cfg \in { BCC_Settings("b", "c", "t", "e", root, m) :
                 root \in RwRoots, m \in BOOLEAN }
  /\ cacheMap = <<>>
  /\ fs = <<>>
  /\ src = [ n \in SrcNames |-> "absent" ]
  /\ req = [ i \in Slots |-> IdleReq ]
  /\ clearing = {}
  /\ last = NoRequest
  /\ calls = 0
  /\ mw = NoPatterns
  /\ rw = NoRewrite

\* mapExternalSources(code) is evaluated
Rewrite(code) ==
  /\ rw' = [ code |-> code, out |-> mapExternalSources(code), map |-> cacheMap,
             done |-> TRUE ]
  /\ UNCHANGED <<cfg, cacheMap, fs, src, req, clearing, last, calls, mw>>

NextRewrite ==
  \/ \E h \in RwHandles, u \in RwSources : addCacheSource(h, u)
  \/ \E code \in RwCodes : Rewrite(code)

SpecRewrite == InitRewrite /\ [][NextRewrite]_vars

\* entry n's base URL occurs in code at position i
Site(code, n, i) == OccursAt(code, cacheMap[n][2], i)

Ref(n) == LocalRef(cfg.cacheRoot, cacheMap[n][1])

\* how far the text after position i has moved once every site before i holds
\* its replacement
RECURSIVE Shift(_, _)
Shift(code, i) ==
  IF i <= 1 THEN 0
  ELSE LET before == { n \in 1..Len(cacheMap) : Site(code, n, i-1) }
           n == CHOOSE n \in before : TRUE
       IN Shift(code, i-1)
          + (IF before = {} THEN 0 ELSE Len(Ref(n)) - Len(cacheMap[n][2]))

\* no registered base URL occurs in the text
NoUrlLeft(out) == \A n \in 1..Len(cacheMap) : ~Contains(out, cacheMap[n][2])

\* the output has `${cacheRoot}/${handle}/` at each site of the handle's base URL,
\* the text between the sites is kept, and nothing else is added
SitesReplaced(code, out) ==
  /\ \A n \in 1..Len(cacheMap), i \in 1..Len(code) :
       Site(code, n, i) => OccursAt(out, Ref(n), i + Shift(code, i))
  /\ \A i \in 1..Len(code) :
       (\A n \in 1..Len(cacheMap), j \in 1..i :
           ~(Site(code, n, j) /\ i < j + Len(cacheMap[n][2])))
       => ( i + Shift(code, i) \in 1..Len(out) /\ out[i + Shift(code, i)] = code[i] )
  /\ Len(out) = Len(code) + Shift(code, Len(code) + 1)

\* text u, laid somewhere over text r, agrees with it wherever both have a
\* character
CanOverlap(u, r) ==
  \E d \in (1 - Len(u))..(Len(r) - 1) :
    \A k \in 1..Len(u) : (k + d \in 1..Len(r)) => u[k] = r[k + d]

\* the base URLs are not empty, their occurrences in the code do not overlap one
\* another, and no base URL can overlap a replacement text
Separated(code) ==
  /\ \A n \in 1..Len(cacheMap) : Len(cacheMap[n][2]) > 0
  /\ \A n1, n2 \in 1..Len(cacheMap), i1, i2 \in 1..Len(code) :
       ( Site(code, n1, i1) /\ Site(code, n2, i2) /\ <<n1, i1>> # <<n2, i2>> )
       => ( i1 + Len(cacheMap[n1][2]) <= i2 \/ i2 + Len(cacheMap[n2][2]) <= i1 )
  /\ \A n1, n2 \in 1..Len(cacheMap) : ~CanOverlap(cacheMap[n1][2], Ref(n2))

HasSite(code) == \E n \in 1..Len(cacheMap), i \in 1..Len(code) : Site(code, n, i)

\* no base URL is empty or overlaps another occurrence of itself in the code
PlainSites(code) ==
  /\ \A n \in 1..Len(cacheMap) : Len(cacheMap[n][2]) > 0
  /\ \A n \in 1..Len(cacheMap), i1, i2 \in 1..Len(code) :
       ( Site(code, n, i1) /\ Site(code, n, i2) /\ i1 < i2 )
       => i1 + Len(cacheMap[n][2]) <= i2

\* mapExternalSources was evaluated against the registry as it is now
Rewritten == rw.done /\ rw.map = cacheMap

\* C8 as stated: with rewriting off the output is the input; with rewriting on,
\* for every registry and every code that contains a registered base URL, the
\* output contains no registered base URL and has the local reference at each
\* site, also when base URLs are prefixes of one another or occur in a
\* replacement text.
C8_RewriteEverySite ==
  Rewritten =>
    /\ cfg.mapSources = FALSE => rw.out = rw.code
    /\ ( cfg.mapSources = TRUE /\ HasSite(rw.code) /\ PlainSites(rw.code) )
       => ( NoUrlLeft(rw.out) /\ SitesReplaced(rw.code, rw.out) )

\* C8 amended: the same, for registries and codes in which the base URLs are
\* not empty, their occurrences in the code do not overlap one another and no
\* base URL can overlap a replacement text.
C8_RewriteSeparatedSites ==
  Rewritten =>
    /\ cfg.mapSources = FALSE => rw.out = rw.code
    /\ ( cfg.mapSources = TRUE /\ Separated(rw.code) )
       => ( NoUrlLeft(rw.out) /\ SitesReplaced(rw.code, rw.out) )

\* a code with sites of two handles, rewritten
C8_Witness ==
  /\ Rewritten /\ cfg.mapSources = TRUE /\ Separated(rw.code)
  /\ Len(cacheMap) = 2
  /\ \A n \in 1..2 : \E i \in 1..Len(rw.code) : Site(rw.code, n, i)
  /\ Len(rw.code) = MaxCodeLen
  /\ rw.out # rw.code

----------------------------------------------------------------------------
(* Properties of sequential runs (SpecSeq) *)

\* C1: from an empty cache, the first cached request for a script S of a
\* configured kind invokes the Generator exactly once, and a second request for
\* the same S invokes it no more and returns the same text.  (S valid: neither
\* request ended in a fault.)
C1_FirstGeneratesSecondHits ==
  ( /\ last.op \in ArtifactOps /\ last.res.t # "fault"
    /\ last.again /\ last.prevOk /\ last.prevEmptyAtCall )
  => ( last.prevGens = 1 /\ last.gens = 0 /\ last.sameRes )

\* C2: an operation whose folder is not configured returns the "disabled"
\* payload naming it, and reads, writes, generates and fetches nothing; such a
\* request is never in flight.
C2_DisabledDoesNothing ==
  /\ ( last.op # "" /\ ~Truthy(FolderOf(last.op)) )
       => ( /\ last.res = Disabled(last.op)
            /\ last.reads = 0 /\ last.writes = 0
            /\ last.gens = 0 /\ last.fetches = 0 )
  /\ \A i \in Slots : req[i].pc # "idle" => Truthy(FolderOf(req[i].op))

\* a cachedCompile request ended with compiledFolder set to the empty text
C2_Witness ==
  /\ last.op = "cachedCompile" /\ cfg.compiledFolder = ""
  /\ last.res = Disabled("cachedCompile")

\* C3: when the first read finds the file, the request returns at once with
\* exactly the stored text; nothing is generated, fetched or written, whatever
\* the source tree and the registry hold.
C3_HitReturnsStored ==
  [][ \A i \in Slots :
        ( req[i].pc = "read1" /\ Exists(req[i].path) /\ req'[i] # req[i] )
        => ( /\ req'[i].pc = "idle"
             /\ last'.res = Text(fs[req[i].path])
             /\ last'.gens = 0 /\ last'.fetches = 0 /\ last'.writes = 0
             /\ fs' = fs ) ]_vars

\* a hit on a compiled artifact that still names a source registered since
C3_Witness ==
  /\ last.op = "cachedCompile" /\ last.reads = 1 /\ last.res.t = "text"
  /\ cfg.mapSources = TRUE /\ validSource(<<"h">>)
  /\ Contains(last.res.text, <<"u">>)
  /\ src[<<"a">>] # "v1"

\* C4: after a request for S, a clear of the kind's folder and a new request
\* for S, that request invokes the Generator exactly once, and a further one
\* invokes it zero times.  (No request of the three ended in a fault.)
C4_OneGenerationAfterClear ==
  ( /\ last.op \in ArtifactOps /\ last.res.t # "fault"
    /\ last.again /\ last.prevOk /\ last.prevAfterClear )
  => ( last.prevGens = 1 /\ last.gens = 0 )

\* C5: scriptCache with a handle that is not registered returns the "disabled"
\* payload, fetches nothing, writes nothing and raises no fault.
C5_UnregisteredRejected ==
  ( last.op = "scriptCache" /\ ~last.registered )
  => ( last.res.t = "disabled" /\ last.fetches = 0 /\ last.writes = 0 )

\* C6: in scriptCache, a miss whose fetch or write fails returns the "missing
\* file ... for source ..." payload and raises no fault.
C6_FetchFailureDegrades ==
  ( /\ last.op = "scriptCache" /\ last.registered
    /\ last.fetches = 1 /\ last.res.t # "text" )
  => last.res = NotFound("scriptCache", last.script, last.handle)

----------------------------------------------------------------------------
(* The middleware in front of the engine *)

\* patterns a caller supplies in place of the defaults
CustomBundleRegEx  == <<"/", "js", "/", "(.+)">>
CustomCompileRegEx == <<"/", "js", "/", "(.+)">>
CustomCacheRegEx   == <<"/", "ext", "/", "(.+?)", "/", "(.+)">>

MwSettings ==
  { BCC_Middleware_Settings(b, c, e) :
      b \in { Undefined, Null, CustomBundleRegEx },
      c \in { Undefined, Null, CustomCompileRegEx },
      e \in { Undefined, Null, CustomCacheRegEx } }

\* request pathnames: each route's own, one that matches two default patterns,
\* one with the route below another segment, ones too short to match, the
\* custom patterns' own, and one that no pattern matches
Pathnames ==
  { <<"/", "bundled", "/", "a", ".", "j", "s">>,
    <<"/", "compiled", "/", "a">>,
    <<"/", "cache", "/", "h", "/", "a">>,
    <<"/", "compiled", "/", "bundled", "/", "a", ".", "j", "s">>,
    <<"/", "x", "/", "bundled", "/", "a">>,
    <<"/", "bundled", "/">>,
    <<"/", "cache", "/", "h">>,
    <<"/", "cache", "/", "h", "/", "a", "/", "a">>,
    <<"/", "js", "/", "a">>,
    <<"/", "ext", "/", "h", "/", "a">>,
    <<"/", "other">> }

InitMW ==
  /\ cfg \in Configs
  /\ cacheMap = <<>>
  /\ fs = <<>>
  /\ src \in [ SrcNames -> { "v1", "absent" } ]
  /\ req = [ i \in Slots |-> IdleReq ]
  /\ clearing = {}
  /\ last = NoRequest
  /\ calls = 0
  /\ mw \in { BCC_Middleware(st) : st \in MwSettings }
  /\ rw = NoRewrite

\* requests come one at a time through the handler
NextMW ==
  \/ Quiet /\ \E p \in Pathnames : Middleware(p)
  \/ \E i \in Slots : Step(i)
  \/ Quiet /\ \E h \in Handles, u \in Sources : addCacheSource(h, u)

SpecMW == InitMW /\ [][NextMW]_vars

\* the request that ended last was handled by operation op called with script and
\* handle: the response holds what the operation returned and next was not called
HandledBy(op, script, handle) ==
  /\ last.op = op /\ last.script = script /\ last.handle = handle
  /\ last.next = 0
  /\ last.res.t # "fault" => ( last.body = last.res /\ last.type = "text/javascript" )
  \* an operation that rejects makes the handler reject: nothing is set
  /\ last.res.t = "fault" => ( last.body = NoBody /\ last.type = Absent )

\* C9: every request is handled in exactly one way: by the operation of the first
\* of the bundle, compile and cache patterns that matches its path, called with
\* the captures (scriptCache: handle = first capture, script = second), and then
\* the body is the returned text, the type is text/javascript and next is not
\* called; or, when no active pattern matches, by one call of next with neither
\* body nor type set.
C9_OneRoutePerRequest ==
  last.pathname # <<>> =>
    LET b == exec(mw.BundleRegEx, last.pathname)
        c == exec(mw.CompileRegEx, last.pathname)
        e == exec(mw.CacheRegEx, last.pathname)
    IN /\ b # NoMatch => HandledBy("cachedBundle", b[1], <<>>)
       /\ ( b = NoMatch /\ c # NoMatch ) => HandledBy("cachedCompile", c[1], <<>>)
       /\ ( b = NoMatch /\ c = NoMatch /\ e # NoMatch )
          => HandledBy("scriptCache", e[2], e[1])
       /\ ( b = NoMatch /\ c = NoMatch /\ e = NoMatch )
          => ( last.op = "" /\ last.next = 1
               /\ last.body = NoBody /\ last.type = Absent )

\* a path that both default patterns match went to cachedBundle and was answered
\* with the bundle
C9_Witness ==
  /\ mw.BundleRegEx = DefaultBundleRegEx /\ mw.CompileRegEx = DefaultCompileRegEx
  /\ last.pathname = <<"/", "compiled", "/", "bundled", "/", "a", ".", "j", "s">>
  /\ last.op = "cachedBundle" /\ last.script = <<"a", ".", "j", "s">>
  /\ last.body.t = "text" /\ last.type = "text/javascript" /\ last.next = 0

\* the route's pattern as the constructor should leave it when the folder is
\* configured
ActivePattern(given, default) == IF Given(given) THEN given ELSE default

\* C10: for each route, a folder that is not configured makes the route
\* pass-through for every request path, also when the caller supplied a pattern
\* for it; a folder that is configured leaves the route active with the caller's
\* pattern or the default.
C10_RouteFollowsFolder ==
  /\ IF Truthy(cfg.bundleFolder)
     THEN mw.BundleRegEx = ActivePattern(mw.settings.BundleRegEx, DefaultBundleRegEx)
     ELSE /\ \A p \in Pathnames : ~test(mw.BundleRegEx, p)
          /\ last.pathname # <<>> => last.op # "cachedBundle"
  /\ IF Truthy(cfg.compiledFolder)
     THEN mw.CompileRegEx = ActivePattern(mw.settings.CompileRegEx, DefaultCompileRegEx)
     ELSE /\ \A p \in Pathnames : ~test(mw.CompileRegEx, p)
          /\ last.pathname # <<>> => last.op # "cachedCompile"
  /\ IF Truthy(cfg.cacheFolder)
     THEN mw.CacheRegEx = ActivePattern(mw.settings.CacheRegEx, DefaultCacheRegEx)
     ELSE /\ \A p \in Pathnames : ~test(mw.CacheRegEx, p)
          /\ last.pathname # <<>> => last.op # "scriptCache"
  /\ ( last.pathname # <<>> /\ last.op = "" ) =>
       /\ Truthy(cfg.bundleFolder) =>
            ~test(ActivePattern(mw.settings.BundleRegEx, DefaultBundleRegEx), last.pathname)
       /\ Truthy(cfg.compiledFolder) =>
            ~test(ActivePattern(mw.settings.CompileRegEx, DefaultCompileRegEx), last.pathname)
       /\ Truthy(cfg.cacheFolder) =>
            ~test(ActivePattern(mw.settings.CacheRegEx, DefaultCacheRegEx), last.pathname)

\* compiledFolder is the empty string and the caller supplied a compile pattern:
\* a path that pattern matches was passed through, while the bundle route, whose
\* folder is configured, is active
C10_Witness ==
  /\ cfg.compiledFolder = "" /\ Truthy(cfg.bundleFolder)
  /\ mw.settings.CompileRegEx = CustomCompileRegEx
  /\ mw.settings.BundleRegEx = Null
  /\ mw.BundleRegEx = DefaultBundleRegEx
  /\ last.pathname = <<"/", "js", "/", "a">>
  /\ last.next = 1 /\ last.body = NoBody

----------------------------------------------------------------------------
(* Faults and stages of a request *)

\* C13: for every script, with or without ".js", and every enabled kind, the path
\* the Generator writes (called with the normalized identifier) is the path
\* cacheOrGen reads; so a Generator that completes after a miss is followed by a
\* second read that succeeds, and the request returns the generated text, never
\* the "failed to find file" payload.
C13_GeneratedIsRead ==
  /\ \A i \in Slots :
       ( req[i].op \in ArtifactOps /\ req[i].pc = "write" )
       => WritePath(req[i].op, req[i].arg, req[i].handle) = req[i].path
  /\ ( /\ last.op \in ArtifactOps /\ last.gens = 1 /\ last.writes >= 1
       /\ last.res.t # "fault" )
     => last.res.t = "text"

\* C11: a failed diagnostics assertion in compile or bundle during a miss is not
\* caught by cacheOrGen: the request ends with that fault and nothing is written;
\* the not-found payload is returned only by the second read, after the
\* Generator returned.
C11_GeneratorFaultPropagates ==
  [][ /\ \A i \in Slots :
           ( /\ req[i].pc = "resume" /\ req[i].out.diagnostics # "null"
             /\ req'[i] # req[i] )
           => ( /\ req'[i].pc = "idle"
                /\ last'.res = Fault("AssertionError")
                /\ last'.writes = 0 /\ fs' = fs )
      /\ \A i \in Slots :
           ( /\ req[i].pc # "idle" /\ req'[i].pc = "idle"
             /\ last'.op \in ArtifactOps
             /\ last'.res = NotFound(last'.op, last'.script, <<>>) )
           => ( /\ req[i].pc = "read2" /\ ~Exists(req[i].path)
                /\ last'.gens = 1 /\ last'.reads = 2 ) ]_vars

\* a cachedCompile of a source with errors ended with the assertion's fault
C11_Witness ==
  /\ last.op = "cachedCompile" /\ last.res = Fault("AssertionError")
  /\ last.reads = 1 /\ last.gens = 1 /\ last.writes = 0
  /\ src[<<"a">>] = "bad"

----------------------------------------------------------------------------
(* Script identifiers of any shape *)

\* identifiers besides Scripts: the empty one, and one that ends in "js" after a
\* character that is no dot
OddScripts == { <<>>, <<"a", "x", "j", "s">> }

NextNames ==
  \/ Quiet /\ \E op \in ArtifactOps, s \in Scripts \cup OddScripts :
                CachedCall(op, s, <<>>, <<>>)
  \/ Quiet /\ \E s \in Scripts \cup OddScripts, h \in Handles :
                CachedCall("scriptCache", s, h, <<>>)
  \/ Quiet /\ \E s \in Scripts \cup OddScripts \cup { UndefinedValue } : valid(s)
  \/ \E i \in Slots : Step(i)
  \/ Quiet /\ \E h \in Handles, u \in Sources : addCacheSource(h, u)

SpecNames == Init /\ [][NextNames]_vars

\* the text ends in the three characters ".js"
EndsInDotJs(script) ==
  Len(script) >= 3 /\ SubSeq(script, Len(script) - 2, Len(script)) = DotJs

\* C19: the identifier given to the Generator is the requested script without
\* its trailing ".js" when it has one, and the requested script unchanged when it
\* does not end in ".js" (one ending in "xjs" is passed unchanged).
C19_OnlyDotJsStripped ==
  \A i \in Slots :
    ( req[i].op \in ArtifactOps /\ req[i].pc \in { "gen", "resume", "write" } )
    => req[i].arg = IF EndsInDotJs(req[i].script)
                    THEN SubSeq(req[i].script, 1, Len(req[i].script) - 3)
                    ELSE req[i].script

\* C12: valid, cachedBundle, cachedCompile, cachedTranspile and scriptCache
\* refuse an empty or absent script identifier before any access to the file
\* system (and so before any generation or fetch).
C12_EmptyScriptRefused ==
  ( last.op \in Ops \cup { "valid" } /\ last.script \in { <<>>, UndefinedValue } )
  => ( /\ last.reads = 0 /\ last.writes = 0
       /\ last.gens = 0 /\ last.fetches = 0
       /\ last.res.t # "text" )

----------------------------------------------------------------------------
(* Requests, clears and registrations that overlap *)

\* cached requests started in one behaviour in which requests overlap
MaxRaceCalls == 2

\* every folder configured, with and without rewriting; bundleFolder and
\* cacheFolder only
RaceConfigs ==
  { BCC_Settings("b", "c", "t", "e", <<"r">>, m) : m \in BOOLEAN }
    \cup { BCC_Settings("b", "", Absent, "e", <<"r">>, TRUE) }

InitRace ==
  /\ cfg \in RaceConfigs
  /\ cacheMap = <<>>
  /\ fs = <<>>
  /\ src \in [ SrcNames -> { "v1", "v2" } ]
  /\ req = [ i \in Slots |-> IdleReq ]
  /\ clearing = {}
  /\ last = NoRequest
  /\ calls = 0
  /\ mw = NoPatterns
  /\ rw = NoRewrite

\* calls, clears and registrations are made at any time; the source tree is left
\* alone
NextRace ==
  \/ /\ calls < MaxRaceCalls
     /\ \E op \in ArtifactOps, s \in Scripts : CachedCall(op, s, <<>>, <<>>)
  \/ /\ calls < MaxRaceCalls
     /\ \E s \in Scripts, h \in Handles : CachedCall("scriptCache", s, h, <<>>)
  \/ \E i \in Slots : Step(i)
  \/ \E f \in ClearOps : ClearCall(f)
  \/ \E e \in clearing : EmptyDir(e)
  \/ \E h \in Handles, u \in Sources : addCacheSource(h, u)

SpecRace == InitRace /\ [][NextRace]_vars

\* overlapping requests and registrations, with no clear
NextOverlap ==
  \/ /\ calls < MaxRaceCalls
     /\ \E op \in ArtifactOps, s \in Scripts : CachedCall(op, s, <<>>, <<>>)
  \/ /\ calls < MaxRaceCalls
     /\ \E s \in Scripts, h \in Handles : CachedCall("scriptCache", s, h, <<>>)
  \/ \E i \in Slots : Step(i)
  \/ \E h \in Handles, u \in Sources : addCacheSource(h, u)

SpecOverlap == InitRace /\ [][NextOverlap]_vars

\* C14: two requests for one uncached script and kind may both miss, both invoke
\* the Generator and both write the output path; with a deterministic Generator
\* and an unchanged registry both return the same content, and the cache entry
\* they leave is the content a single request returns.
C14_RaceIsHarmless ==
  ( /\ last.op \in ArtifactOps
    /\ ( cfg.mapSources = FALSE \/ cacheMap = <<>> )
    /\ last.again /\ last.prevOk
    /\ last.gens = 1 /\ last.prevGens = 1
    /\ last.res.t = "text" )
  => ( /\ last.sameRes
       /\ Exists(CachePath(last.op, last.script, last.handle))
       /\ fs[CachePath(last.op, last.script, last.handle)] = last.res.text )

\* C15: within one cached request the stages come strictly in order: disabled
\* check, first read, Generator or fetch, second read, not-found payload.  The
\* Generator or fetch is invoked at most once, only after the first read failed,
\* and nothing is read after the second read.
C15_StagesInOrder ==
  [][ \A i \in Slots :
        LET a == req[i]
            b == req'[i]
            ends == a.pc # "idle" /\ b.pc = "idle"
        IN
        /\ ( a.pc = "idle" /\ b # a )
           => ( /\ b.pc = "read1" /\ Truthy(FolderOf(b.op))
                /\ b.reads = 0 /\ b.gens = 0 /\ b.fetches = 0 /\ b.writes = 0 )
        /\ ( a.pc = "read1" /\ b # a )
           => \/ /\ ends /\ last'.reads = 1 /\ last'.gens = 0 /\ last'.fetches = 0
              \/ /\ b.pc \in { "gen", "fetch" } /\ ~Exists(a.path)
                 /\ b.reads = 1 /\ b.gens + b.fetches = 1
        /\ ( a.pc \in { "gen", "fetch", "resume", "write" } /\ b # a )
           => \/ /\ ends /\ last'.res.t = "fault" /\ last'.reads = 1
              \/ /\ b.pc \in { "resume", "write", "read2" }
                 /\ b.reads = 1 /\ b.gens = a.gens /\ b.fetches = a.fetches
        /\ ( a.pc = "read2" /\ b # a )
           => ( /\ ends /\ last'.reads = 2 /\ last'.gens + last'.fetches = 1
                /\ last'.res = IF Exists(a.path) THEN Text(fs[a.path])
                                ELSE NotFound(a.op, a.script, a.handle) )
        /\ ends => ( last'.res.t \in { "failed to find file", "missing file" }
                     => a.pc = "read2" ) ]_vars

\* a request went through every stage: it missed, generated two resources, read
\* again and returned the text
C15_Witness ==
  /\ last.op = "cachedCompile" /\ last.reads = 2 /\ last.gens = 1
  /\ last.writes = 2 /\ last.res.t = "text"

\* C16: under any interleaving of requests, registrations and clears, a cache
\* entry once written stays present with the same content until a clear empties
\* its folder: no request and no registration deletes or changes it.
C16_EntriesPersist ==
  [][ \A p \in DOMAIN fs :
        \/ p \in DOMAIN fs' /\ fs'[p] = fs[p]
        \/ \E e \in clearing : e \notin clearing' /\ p[1] = e[2] ]_vars

----------------------------------------------------------------------------
(* Clearing and the registry *)

\* the folder a single-directory clear operation is meant to empty
OwnFolder(clearOp) ==
  CASE clearOp = "clearBundleCache"    -> cfg.bundleFolder
    [] clearOp = "clearCompileCache"   -> cfg.compiledFolder
    [] clearOp = "clearTranspileCache" -> cfg.transpileFolder
    [] clearOp = "clearExternalCache"  -> cfg.cacheFolder

SingleClears ==
  { "clearBundleCache", "clearCompileCache", "clearTranspileCache",
    "clearExternalCache" }

\* the handles of a registry
HandlesOf(m) == { m[n][1] : n \in 1..Len(m) }

\* C17: a single-directory clear empties its own folder only and leaves the other
\* folders, the configuration and the registry as they are; a clear of a folder
\* that is not configured does nothing; clearAllCache empties every configured
\* folder; only addCacheSource changes the registry and no handle ever leaves it.
C17_ClearsOwnFolderOnly ==
  [][ /\ cfg' = cfg
      \* an emptying that runs: its operation's own folder, configured, loses
      \* every file, and nothing else changes
      /\ \A e \in clearing \ clearing' :
           /\ e[1] \in SingleClears /\ e[2] = OwnFolder(e[1]) /\ Truthy(e[2])
           /\ \A p \in DOMAIN fs' : p[1] # OwnFolder(e[1])
           /\ \A p \in DOMAIN fs :
                p[1] # OwnFolder(e[1]) => ( p \in DOMAIN fs' /\ fs'[p] = fs[p] )
           /\ cacheMap' = cacheMap /\ req' = req
      \* a clear that is called: one operation's emptying of its configured
      \* folder, or those of all four for clearAllCache; nothing for a folder that
      \* is not configured
      /\ clearing' # clearing /\ clearing \subseteq clearing'
         => /\ \/ \E c \in SingleClears :
                    /\ Truthy(OwnFolder(c))
                    /\ clearing' \ clearing = { <<c, OwnFolder(c)>> }
               \/ clearing' =
                    clearing \cup { <<c, OwnFolder(c)>> : c \in { x \in SingleClears : Truthy(OwnFolder(x)) } }
            /\ fs' = fs /\ cacheMap' = cacheMap /\ req' = req
      /\ \A e \in clearing' : Truthy(e[2])
      \* the registry: changed by itself only, and only by gaining or resetting a handle
      /\ cacheMap' # cacheMap
         => /\ HandlesOf(cacheMap) \subseteq HandlesOf(cacheMap')
            /\ Len(cacheMap') >= Len(cacheMap)
            /\ fs' = fs /\ clearing' = clearing /\ req' = req ]_vars

\* the bundle folder was emptied after a bundle was cached there, while a compiled
\* artifact and the registered handle are still in place
C17_Witness ==
  /\ last.op = "cachedBundle" /\ last.res.t = "text" /\ last.cleared
  /\ EmptyFolder(cfg.bundleFolder) /\ ~EmptyFolder(cfg.compiledFolder)
  /\ clearing = {} /\ validSource(<<"h">>)

----------------------------------------------------------------------------
(* The variant without feature toggles *)

\* bundleFolder, compiledFolder, cacheFolder and cacheRoot are all set
AllSet ==
  /\ Truthy(cfg.bundleFolder) /\ Truthy(cfg.compiledFolder)
  /\ Truthy(cfg.cacheFolder) /\ cfg.cacheRoot # UndefinedValue

\* C18: with bundleFolder, compiledFolder, cacheFolder and cacheRoot set, the
\* variant without toggles and the generalized one return the same payloads and
\* leave the same cache files, for any cacheFolder and for scripts with and
\* without ".js": each request reads the same path in both, and what it writes,
\* it writes to the same path in both.
C18_SimpleSubsumed ==
  \A i \in Slots :
    ( AllSet /\ req[i].op \in { "cachedBundle", "cachedCompile", "scriptCache" } )
    => /\ req[i].pc # "idle"
          => Simple_CachePath(req[i].op, req[i].script, req[i].handle) = req[i].path
       /\ req[i].pc = "write"
          => Simple_WritePath(req[i].op, req[i].arg, req[i].handle)
               = WritePath(req[i].op, req[i].arg, req[i].handle)

----------------------------------------------------------------------------
(* What a request returns *)

\* C20: in every interleaving of requests, clears and registrations, a cached
\* request that returns yields the content read from its planned path, or the
\* "disabled" payload, or the not-found payload naming the script; never the
\* "somehow failed" placeholder; and when a clear empties the folder between the
\* generation and the second read, the request returns the not-found payload and
\* raises no fault.
C20_ReturnsOneOfThree ==
  [][ /\ \A i \in Slots :
           LET a == req[i] IN
           /\ ( a.pc \in { "read1", "read2" } /\ Exists(a.path) /\ req'[i] # a )
              => ( req'[i].pc = "idle" /\ last'.res = Text(fs[a.path]) )
           /\ ( a.pc = "read2" /\ ~Exists(a.path) /\ req'[i] # a )
              => ( req'[i].pc = "idle"
                   /\ last'.res = NotFound(a.op, a.script, a.handle) )
      /\ ( last'.op \in Ops /\ last'.res.t # "fault" )
         => \/ last'.res.t = "text"
            \/ last'.res = Disabled(last'.op) /\ ~Truthy(FolderOf(last'.op))
            \/ last'.res = NotFound(last'.op, last'.script, last'.handle)
      /\ last'.res # SomehowFailed(last'.op) ]_vars

\* a bundle was written where it is read, the folder was emptied before the
\* second read, and the request returned the not-found payload
C20_Witness ==
  /\ last.op = "cachedBundle" /\ last.script = <<"a", ".", "j", "s">>
  /\ last.writes = 1 /\ last.reads = 2
  /\ last.res = NotFound("cachedBundle", last.script, <<>>)

----------------------------------------------------------------------------
(* A miss that ends in a fault *)

\* the faults of a failed diagnostics assertion and of a fetch that rejects
EarlyFaults == { Fault("AssertionError"), Fault("fetch") }

\* C21: a miss that ends in the fault of a failed diagnostics assertion or of a
\* rejected fetch has written no file: the cache entries and their contents are
\* what they were before the request (files change only when a request writes or
\* a folder is emptied), and the next request for the same script misses again.
C21_FaultWritesNothing ==
  [][ /\ \A i \in Slots :
           LET a == req[i] IN
           /\ ( a.pc # "idle" /\ req'[i].pc = "idle" /\ last'.res \in EarlyFaults )
              => ( /\ last'.writes = 0 /\ fs' = fs
                   /\ ~Exists(a.path) )
           /\ ( /\ a.pc = "read1" /\ req'[i] # a
                /\ SameAsLast(a) /\ last.res \in EarlyFaults /\ ~last.cleared )
              => ( ~Exists(a.path) /\ req'[i].pc \in { "gen", "fetch" } )
      /\ fs' # fs
         => \/ \E i \in Slots :
                 req[i].pc = "write" /\ req'[i].writes = req[i].writes + 1
            \/ clearing' # clearing ]_vars

\* a cachedCompile of a source with errors faulted, left the cache empty, and the
\* same request made again missed and faulted again
C21_Witness ==
  /\ last.op = "cachedCompile" /\ last.res = Fault("AssertionError")
  /\ last.again /\ ~last.prevOk /\ last.prevGens = 1
  /\ last.gens = 1 /\ last.writes = 0
  /\ fs = <<>>

----------------------------------------------------------------------------
(* A pattern passed as null *)

\* C22: a pattern passed as null in the middleware settings disables its route:
\* no path is handled by that route's operation, also when the route's folder is
\* configured.
C22_NullDisablesRoute ==
  last.pathname # <<>> =>
    /\ mw.settings.BundleRegEx = Null  => last.op # "cachedBundle"
    /\ mw.settings.CompileRegEx = Null => last.op # "cachedCompile"
    /\ mw.settings.CacheRegEx = Null   => last.op # "scriptCache"

============================================================================
